---- MODULE Spec2Model ----
(***************************************************************************)
(* The generic breadth-first puzzle solver of src/src/generic_solver.rs:   *)
(* Solver::new and Solver::solve over the Puzzle and Set traits, run on    *)
(* the i32 puzzle of the crate's test and on small table-driven puzzles.   *)
(***************************************************************************)
EXTENDS Integers, Sequences, FiniteSets, TLC

(***************************************************************************)
(* Bounds of the table-driven puzzle family.                               *)
(***************************************************************************)
MaxState == 2
MaxEdges == 3

(***************************************************************************)
(* The i32 puzzle of the test module: start 1, goal 10, moves -1 and +2.   *)
(***************************************************************************)
I32Start == 1
I32Goal == 10
I32Moves == <<-1, 2>>

Range(f) == {f[i] : i \in DOMAIN f}

(***************************************************************************)
(* Implementations of trait Puzzle.  A puzzle value is a record            *)
(*   kind  : "i32" for the test's impl, "table" for a table-driven impl    *)
(*   edges : (table) the moves, a sequence of <<from, to>> grouped by      *)
(*           source state; a Move is an index into this sequence           *)
(*   goal  : (i32) the goal state; (table) the least final state           *)
(* The states of both kinds are integers.                                  *)
(***************************************************************************)
States == 0..MaxState

Edge == States \X States

\* Edge lists in which the moves of one state are contiguous, in the order the
\* state's get_possible_moves enumerates them.
EdgeLists ==
  UNION { { e \in [1..n -> Edge] :
              \A i \in 1..(n-1) : e[i][1] <= e[i+1][1] } : n \in 0..MaxEdges }

TablePuzzles ==
  { [kind |-> "table", edges |-> e, goal |-> g] :
      e \in EdgeLists, g \in 0..(MaxState + 1) }

I32Puzzle == [kind |-> "i32", edges |-> <<>>, goal |-> I32Goal]

Puzzles == {I32Puzzle} \cup TablePuzzles

initial_configuration(P) == IF P.kind = "i32" THEN I32Start ELSE 0

\* The indices of the edges leaving s, ascending.
RECURSIVE EdgesFrom(_, _, _)
EdgesFrom(edges, s, i) ==
  IF i > Len(edges) THEN <<>>
  ELSE IF edges[i][1] = s THEN <<i>> \o EdgesFrom(edges, s, i + 1)
  ELSE EdgesFrom(edges, s, i + 1)

get_possible_moves(P, s) ==
  IF P.kind = "i32" THEN I32Moves ELSE EdgesFrom(P.edges, s, 1)

make_move(P, s, a_move) ==
  IF P.kind = "i32" THEN s + a_move ELSE P.edges[a_move][2]

is_final(P, s) ==
  IF P.kind = "i32" THEN s = P.goal ELSE s >= P.goal

(***************************************************************************)
(* trait Set (HashSet / BTreeSet instances) and struct Path.               *)
(***************************************************************************)
new_set == {}

\* Fault variant of add: the element is not inserted.
add_nothing(set, element) == set

add(set, element) == set \cup {element}

\* Fault variant of mem: the lookup never finds the candidate.
mem_never(set, candidate) == FALSE

mem(set, candidate) == candidate \in set

new(start) == <<start>>

last(p) == p[Len(p)]

push(p, step) == Append(p, step)

\* Fault variant of into_vec: the vector is returned without its first state.
into_vec_tail(p) == Tail(p)

into_vec(p) == p

clone(p) == p

(***************************************************************************)
(* Option<Vec<P>>, the value of solve().                                   *)
(***************************************************************************)
Pending == [tag |-> "Pending", vec |-> <<>>]
None == [tag |-> "None", vec |-> <<>>]
Some(v) == [tag |-> "Some", vec |-> v]

(***************************************************************************)
(* The Klotski instance of trait Puzzle, src/src/klotski.rs.               *)
(* Pieces and directions are their repr(i8) values.                        *)
(***************************************************************************)
\* Bound: the number of make_move calls along one explored line of play.
MaxKlotskiDepth == 10

WIDTH == 4
HEIGHT == 5

N_PIECES == 10
N_DIRECTIONS == 4

C0 == 0
C1 == 1
C2 == 2
C3 == 3
H0 == 4
S0 == 5
V0 == 6
V1 == 7
V2 == 8
V3 == 9
X0 == -1

North == 0 * N_PIECES
South == 1 * N_PIECES
West == 2 * N_PIECES
East == 3 * N_PIECES

\* Rust arrays are indexed from 0, the sequences here from 1.
PIECES == <<C0, C1, C2, C3, H0, S0, V0, V1, V2, V3>>

DIRECTIONS == <<North, South, West, East>>

\* Option<(usize, usize)>: NoCell is None, <<x, y>> is Some((x, y)).
NoCell == <<>>

Direction_from(direction, x, y) ==
  IF direction = North THEN (IF y > 0 THEN <<x, y - 1>> ELSE NoCell)
  ELSE IF direction = South THEN (IF y < HEIGHT - 1 THEN <<x, y + 1>> ELSE NoCell)
  ELSE IF direction = West THEN (IF x > 0 THEN <<x - 1, y>> ELSE NoCell)
  ELSE (IF x < WIDTH - 1 THEN <<x + 1, y>> ELSE NoCell)

Move(piece, direction) == [piece |-> piece, direction |-> direction]

\* Fault variant of to_u64: the index is piece-major instead of
\* direction-major (piece * N_DIRECTIONS + index of the direction).
to_u64_piece_major(m) == m.piece * N_DIRECTIONS + (m.direction \div N_PIECES)

\* (piece as i8 + direction as i8) as u64; the sum is in 0..39 for every
\* piece other than X0, the only pieces it is called with.
to_u64(m) == m.piece + m.direction

from_u64(n) ==
  Move(PIECES[(n % N_PIECES) + 1], DIRECTIONS[(n \div N_PIECES) + 1])

\* MoveSet(u64): the u64 is held as the set of the positions of its 1 bits
\* (1 means disallowed).
MoveSet_new == {}

remove(set, a_move) == set \cup {to_u64(a_move)}

is_allowed(set, a_move) == to_u64(a_move) \notin set

\* MoveSetIter::next on the iterator {set, next: n}: the item returned
\* (<<>> for None, <<move>> for Some(move)) and the iterator's next afterwards.
RECURSIVE MoveSetIter_next(_, _)
MoveSetIter_next(set, n) ==
  IF n < N_PIECES * N_DIRECTIONS
  THEN IF is_allowed(set, from_u64(n))
       THEN [item |-> <<from_u64(n)>>, next |-> n + 1]
       ELSE MoveSetIter_next(set, n + 1)
  ELSE [item |-> <<>>, next |-> n]

\* Klotski([BoardRow; HEIGHT]): b[y + 1][x + 1] is self.0[y][x].
INITIAL_BOARD ==
  << <<V0, S0, S0, V1>>,
     <<V0, S0, S0, V1>>,
     <<V2, H0, H0, V3>>,
     <<V2, C0, C1, V3>>,
     <<C2, X0, X0, C3>> >>

At(b, x, y) == b[y + 1][x + 1]

set_cell(b, x, y, piece) == [b EXCEPT ![y + 1][x + 1] = piece]

klotski_is_final(b) ==
  /\ At(b, 1, 3) = S0
  /\ At(b, 2, 3) = S0
  /\ At(b, 1, 4) = S0
  /\ At(b, 2, 4) = S0

\* Fault variant of the target test: only an empty target lets the move stand.
blocked_unless_empty(target, piece) == target # X0

\* !(target == X0 || target == piece)
blocked(target, piece) == ~(target = X0 \/ target = piece)

\* The body of the innermost loop of get_possible_moves for cell (x, y);
\* moveset is the local variable result.
scan_cell(b, moveset, x, y, direction) ==
  LET piece == At(b, x, y)
  IN IF piece = X0 THEN moveset
     ELSE LET n == Direction_from(direction, x, y)
          IN IF n # NoCell
             THEN IF blocked(At(b, n[1], n[2]), piece)
                  THEN remove(moveset, Move(piece, direction))
                  ELSE moveset
             ELSE remove(moveset, Move(piece, direction))

\* The three nested loops, rows outermost, directions innermost; i counts
\* the iterations done. The comparison with MoveSet_new only makes the
\* iteration's set a value before the next iteration starts.
RECURSIVE scan(_, _, _)
scan(b, moveset, i) ==
  IF i = HEIGHT * WIDTH * N_DIRECTIONS THEN moveset
  ELSE LET after == scan_cell(b, moveset,
                              (i \div N_DIRECTIONS) % WIDTH,
                              i \div (N_DIRECTIONS * WIDTH),
                              DIRECTIONS[(i % N_DIRECTIONS) + 1])
       IN IF after = MoveSet_new
          THEN scan(b, MoveSet_new, i + 1)
          ELSE scan(b, after, i + 1)

klotski_get_possible_moves(b) == scan(b, MoveSet_new, 0)

\* Fault variant of the start of make_move: result starts as a copy of self.
make_move_start_copy(b) == [panic |-> FALSE, board |-> b]

\* let mut result = Klotski([[X0; WIDTH]; HEIGHT]); panic records whether
\* expect("apply_move") has fired.
make_move_start(b) ==
  [panic |-> FALSE, board |-> [y \in 1..HEIGHT |-> [x \in 1..WIDTH |-> X0]]]

\* The body of the inner loop of make_move for cell (x, y).
move_cell(b, r, a_move, x, y) ==
  LET piece == At(b, x, y)
  IN IF r.panic \/ piece = X0 THEN r
     ELSE IF piece = a_move.piece
     THEN LET n == Direction_from(a_move.direction, x, y)
          IN IF n = NoCell
             THEN [panic |-> TRUE, board |-> r.board]
             ELSE [panic |-> FALSE,
                   board |-> set_cell(r.board, n[1], n[2], piece)]
     ELSE [panic |-> FALSE, board |-> set_cell(r.board, x, y, piece)]

RECURSIVE move_cells(_, _, _, _)
move_cells(b, r, a_move, i) ==
  IF i = HEIGHT * WIDTH THEN r
  ELSE move_cells(b, move_cell(b, r, a_move, i % WIDTH, i \div WIDTH),
                  a_move, i + 1)

klotski_make_move(b, a_move) == move_cells(b, make_move_start(b), a_move, 0)

(***************************************************************************)
(* State of a line of play on the Klotski board, driven the way solve()    *)
(* drives a puzzle: get_possible_moves, iteration, make_move.              *)
(*   board     the current board                                           *)
(*   kset      the MoveSet get_possible_moves returned for board           *)
(*   knext     the field next of the MoveSetIter over kset                 *)
(*   kyield    the moves the iterator has returned, in order               *)
(*   kprev     the board make_move was last called on                      *)
(*   kmoved    the move it was called with (<<>>: not called yet)          *)
(*   kpanic    whether that call panicked                                  *)
(*   kdepth    the number of make_move calls so far                        *)
(*   kpc       "board": before get_possible_moves; "iter": iterating;      *)
(*             "end": the iterator has returned None                       *)
(***************************************************************************)
VARIABLES board, kset, knext, kyield, kprev, kmoved, kpanic, kdepth, kpc

kvars == <<board, kset, knext, kyield, kprev, kmoved, kpanic, kdepth, kpc>>

\* Klotski::initial()
KlotskiInit ==
  /\ board = INITIAL_BOARD
  /\ kset = MoveSet_new
  /\ knext = 0
  /\ kyield = <<>>
  /\ kprev = INITIAL_BOARD
  /\ kmoved = <<>>
  /\ kpanic = FALSE
  /\ kdepth = 0
  /\ kpc = "board"

\* board.get_possible_moves().into_iter()
KGetMoves ==
  /\ kpc = "board"
  /\ kset' = klotski_get_possible_moves(board)
  /\ knext' = 0
  /\ kyield' = <<>>
  /\ kpc' = "iter"
  /\ UNCHANGED <<board, kprev, kmoved, kpanic, kdepth>>

\* MoveSetIter::next returns Some(move)
KIterSome ==
  /\ kpc = "iter"
  /\ MoveSetIter_next(kset, knext).item # <<>>
  /\ kyield' = kyield \o MoveSetIter_next(kset, knext).item
  /\ knext' = MoveSetIter_next(kset, knext).next
  /\ UNCHANGED <<board, kset, kprev, kmoved, kpanic, kdepth, kpc>>

\* MoveSetIter::next returns None
KIterNone ==
  /\ kpc = "iter"
  /\ MoveSetIter_next(kset, knext).item = <<>>
  /\ knext' = MoveSetIter_next(kset, knext).next
  /\ kpc' = "end"
  /\ UNCHANGED <<board, kset, kyield, kprev, kmoved, kpanic, kdepth>>

\* board.make_move(each_move) for the move the iterator returned last
KMakeMove ==
  /\ kpc = "iter"
  /\ kyield # <<>>
  /\ ~kpanic
  /\ kdepth < MaxKlotskiDepth
  /\ LET r == klotski_make_move(board, kyield[Len(kyield)])
     IN /\ board' = r.board
        /\ kpanic' = r.panic
  /\ kprev' = board
  /\ kmoved' = <<kyield[Len(kyield)]>>
  /\ kdepth' = kdepth + 1
  /\ kset' = MoveSet_new
  /\ knext' = 0
  /\ kyield' = <<>>
  /\ kpc' = "board"

(***************************************************************************)
(* State of one Solver::new(initial).solve() call.                         *)
(*   puzzle        the Puzzle implementation P                             *)
(*   seen, todo    the Solver's fields                                     *)
(*   paths         the rest of the level being iterated (for path in ...)  *)
(*   path          the path being examined                                 *)
(*   moves         the rest of the move iterator of path.last()            *)
(*   pc            position in solve(): "while", "for", "moves", "done"    *)
(*   result        the value returned                                      *)
(* and the observations the properties are stated over:                    *)
(*   enqueued      every path ever placed in todo, in order                *)
(*   adds          every argument of seen.add, in order                    *)
(*   calls         every <<state, move>> make_move was called with         *)
(*   level         the number of non-empty frontiers taken so far          *)
(*   tested        every path is_final was called on (its last), in order  *)
(***************************************************************************)
VARIABLES puzzle, seen, todo, paths, path, moves, pc, result,
          enqueued, adds, calls, level, tested

vars == <<puzzle, seen, todo, paths, path, moves, pc, result,
          enqueued, adds, calls, level, tested>>

\* Solver::new
Init ==
  /\ puzzle \in Puzzles
  /\ seen = new_set
  /\ todo = <<new(initial_configuration(puzzle))>>
  /\ paths = <<>>
  /\ path = <<>>
  /\ moves = <<>>
  /\ pc = "while"
  /\ result = Pending
  /\ enqueued = <<new(initial_configuration(puzzle))>>
  /\ adds = <<>>
  /\ calls = <<>>
  /\ level = 0
  /\ tested = <<>>
  /\ KlotskiInit

\* Fault variant of the take: only the first path of the frontier is kept.
replace_todo_first(t) == <<<<t[1]>>, <<>>>>

\* Fault variant of the take: the frontier is copied and todo is not emptied.
replace_todo_keep(t) == <<t, t>>

\* mem::replace(&mut self.todo, Vec::new()): <<value returned, todo afterwards>>
replace_todo(t) == <<t, <<>>>>

\* Fault variant of the loop head: the frontier is taken without the
\* is_empty test, so an empty frontier is taken again and again.
TakeFrontierUnguarded ==
  /\ pc = "while"
  /\ paths' = todo
  /\ todo' = <<>>
  /\ level' = IF todo = <<>> THEN level ELSE level + 1
  /\ pc' = "for"
  /\ UNCHANGED <<puzzle, seen, path, moves, result, enqueued, adds, calls, tested>>

\* while !self.todo.is_empty() { let paths = mem::replace(...)
TakeFrontier ==
  /\ pc = "while"
  /\ todo # <<>>
  /\ paths' = replace_todo(todo)[1]
  /\ todo' = replace_todo(todo)[2]
  /\ level' = level + 1
  /\ pc' = "for"
  /\ UNCHANGED <<puzzle, seen, path, moves, result, enqueued, adds, calls, tested>>

\* the while condition fails: None
ReturnNone ==
  /\ pc = "while"
  /\ todo = <<>>
  /\ result' = None
  /\ pc' = "done"
  /\ UNCHANGED <<puzzle, seen, todo, paths, path, moves, enqueued, adds, calls, level, tested>>

\* for path in paths { if path.last().is_final() { return Some(path.into_vec()) }
ReturnSome ==
  /\ pc = "for"
  /\ paths # <<>>
  /\ is_final(puzzle, last(Head(paths)))
  /\ path' = Head(paths)
  /\ paths' = Tail(paths)
  /\ result' = Some(into_vec(Head(paths)))
  /\ tested' = Append(tested, Head(paths))
  /\ pc' = "done"
  /\ UNCHANGED <<puzzle, seen, todo, moves, enqueued, adds, calls, level>>

\* Fault variant of the expansion: the moves of path.last() are enumerated
\* whether or not it is final (the is_final test does not guard it).
ExpandUnchecked ==
  /\ pc = "for"
  /\ paths # <<>>
  /\ path' = Head(paths)
  /\ paths' = Tail(paths)
  /\ moves' = get_possible_moves(puzzle, last(Head(paths)))
  /\ tested' = Append(tested, Head(paths))
  /\ pc' = "moves"
  /\ UNCHANGED <<puzzle, seen, todo, result, enqueued, adds, calls, level>>

\* ... otherwise: for each_move in path.last().get_possible_moves()
Expand ==
  /\ pc = "for"
  /\ paths # <<>>
  /\ ~is_final(puzzle, last(Head(paths)))
  /\ path' = Head(paths)
  /\ paths' = Tail(paths)
  /\ moves' = get_possible_moves(puzzle, last(Head(paths)))
  /\ tested' = Append(tested, Head(paths))
  /\ pc' = "moves"
  /\ UNCHANGED <<puzzle, seen, todo, result, enqueued, adds, calls, level>>

\* Fault variant of the call: the move is applied to the first state of the path.
make_move_call_first(p, each_move) == <<p[1], each_move>>

\* the arguments of the make_move call for each_move
make_move_call(p, each_move) == <<last(p), each_move>>

\* let mut next_path = path.clone(); next_path.push(next_config);
next_path(p, next_config) == push(clone(p), next_config)

\* Fault variant of the enqueue: the path is inserted at the front of todo.
push_todo_front(t, p) == <<p>> \o t

\* self.todo.push(next_path)
push_todo(t, p) == Append(t, p)

\* Fault variant of the loop body: the successor is pushed onto path itself,
\* without the clone, so later siblings extend the already extended path.
TryMoveNoClone ==
  /\ pc = "moves"
  /\ moves # <<>>
  /\ LET c == make_move_call(path, Head(moves))
         next_config == make_move(puzzle, c[1], c[2])
     IN /\ calls' = Append(calls, c)
        /\ IF ~mem(seen, next_config)
           THEN /\ seen' = add(seen, next_config)
                /\ adds' = Append(adds, next_config)
                /\ path' = push(path, next_config)
                /\ todo' = push_todo(todo, push(path, next_config))
                /\ enqueued' = Append(enqueued, push(path, next_config))
           ELSE UNCHANGED <<seen, adds, todo, enqueued, path>>
  /\ moves' = Tail(moves)
  /\ UNCHANGED <<puzzle, paths, pc, result, level, tested>>

\* Fault variant of the loop body: the state being expanded is marked as seen
\* instead of the successor just produced.
TryMoveMarkExpanded ==
  /\ pc = "moves"
  /\ moves # <<>>
  /\ LET c == make_move_call(path, Head(moves))
         next_config == make_move(puzzle, c[1], c[2])
     IN /\ calls' = Append(calls, c)
        /\ IF ~mem(seen, next_config)
           THEN /\ seen' = add(seen, last(path))
                /\ adds' = Append(adds, last(path))
                /\ todo' = push_todo(todo, next_path(path, next_config))
                /\ enqueued' = Append(enqueued, next_path(path, next_config))
           ELSE UNCHANGED <<seen, adds, todo, enqueued>>
  /\ moves' = Tail(moves)
  /\ UNCHANGED <<puzzle, paths, path, pc, result, level, tested>>

\* one iteration of the inner for loop
TryMove ==
  /\ pc = "moves"
  /\ moves # <<>>
  /\ LET c == make_move_call(path, Head(moves))
         next_config == make_move(puzzle, c[1], c[2])
     IN /\ calls' = Append(calls, c)
        /\ IF ~mem(seen, next_config)
           THEN /\ seen' = add(seen, next_config)
                /\ adds' = Append(adds, next_config)
                /\ todo' = push_todo(todo, next_path(path, next_config))
                /\ enqueued' = Append(enqueued, next_path(path, next_config))
           ELSE UNCHANGED <<seen, adds, todo, enqueued>>
  /\ moves' = Tail(moves)
  /\ UNCHANGED <<puzzle, paths, path, pc, result, level, tested>>

\* the move iterator is exhausted: next path of the level
EndMoves ==
  /\ pc = "moves"
  /\ moves = <<>>
  /\ pc' = "for"
  /\ UNCHANGED <<puzzle, seen, todo, paths, path, moves, result, enqueued, adds, calls, level, tested>>

\* the level is exhausted: back to the while condition
EndLevel ==
  /\ pc = "for"
  /\ paths = <<>>
  /\ pc' = "while"
  /\ UNCHANGED <<puzzle, seen, todo, paths, path, moves, result, enqueued, adds, calls, level, tested>>

Next ==
  \/ TakeFrontier /\ UNCHANGED kvars
  \/ ReturnNone /\ UNCHANGED kvars
  \/ ReturnSome /\ UNCHANGED kvars
  \/ Expand /\ UNCHANGED kvars
  \/ TryMove /\ UNCHANGED kvars
  \/ EndMoves /\ UNCHANGED kvars
  \/ EndLevel /\ UNCHANGED kvars

Spec == Init /\ [][Next]_<<vars, kvars>>

\* Lines of play on the Klotski board from INITIAL_BOARD; the solver idles.
KInit == puzzle = I32Puzzle /\ Init

KNext ==
  \/ KGetMoves /\ UNCHANGED vars
  \/ KIterSome /\ UNCHANGED vars
  \/ KIterNone /\ UNCHANGED vars
  \/ KMakeMove /\ UNCHANGED vars

KSpec == KInit /\ [][KNext]_<<vars, kvars>>

\* solve() is one unbroken single-threaded call: it always takes its next step.
FairSpec == Spec /\ WF_vars(Next)

(***************************************************************************)
(* Reference notions on the puzzle graph, independent of the solver.       *)
(***************************************************************************)
Successors(P, s) ==
  { make_move(P, s, m) : m \in Range(get_possible_moves(P, s)) }

\* The least k >= depth such that a final state lies k - depth legal moves
\* beyond the frontier set; -1 when no final state is reachable.
RECURSIVE GoalDepth(_, _, _, _)
GoalDepth(P, frontier, visited, depth) ==
  IF frontier = {} THEN -1
  ELSE IF \E s \in frontier : is_final(P, s) THEN depth
  ELSE GoalDepth(P,
                 (UNION { Successors(P, s) : s \in frontier })
                    \ (visited \cup frontier),
                 visited \cup frontier,
                 depth + 1)

NearestGoalDepth(P) == GoalDepth(P, {initial_configuration(P)}, {}, 0)

\* v is a legal trace of P: each state follows from the one before by a move
\* that get_possible_moves returns for that state.
LegalTrace(P, v) ==
  \A i \in 1..(Len(v) - 1) :
    \E k \in DOMAIN get_possible_moves(P, v[i]) :
      make_move(P, v[i], get_possible_moves(P, v[i])[k]) = v[i + 1]

\* Some legal sequence of exactly k moves from s ends in a final state.
RECURSIVE CanReach(_, _, _)
CanReach(P, s, k) ==
  IF k = 0 THEN is_final(P, s)
  ELSE \E i \in DOMAIN get_possible_moves(P, s) :
         CanReach(P, make_move(P, s, get_possible_moves(P, s)[i]), k - 1)

\* The states passed by the lexicographically least sequence of move
\* positions among the legal sequences of exactly k moves from s that end in
\* a final state (one exists: CanReach(P, s, k)).
RECURSIVE LexMinTrace(_, _, _)
LexMinTrace(P, s, k) ==
  IF k = 0 THEN <<s>>
  ELSE LET ms == get_possible_moves(P, s)
           ok(i) == CanReach(P, make_move(P, s, ms[i]), k - 1)
           i == CHOOSE i \in DOMAIN ms :
                  ok(i) /\ \A j \in DOMAIN ms : j < i => ~ok(j)
       IN <<s>> \o LexMinTrace(P, make_move(P, s, ms[i]), k - 1)

NoDuplicates(q) == \A i, j \in DOMAIN q : i # j => q[i] # q[j]

Returned == pc = "done"

(***************************************************************************)
(* C1  Shortest path: a returned path has exactly d + 1 states, d the      *)
(* least number of legal moves from the initial state to a final state,    *)
(* so no legal path to a final state has fewer states.                     *)
(***************************************************************************)
C1_ShortestPath ==
  (Returned /\ result.tag = "Some") =>
     /\ NearestGoalDepth(puzzle) >= 0
     /\ Len(result.vec) = NearestGoalDepth(puzzle) + 1

\* Returned a two-state path on a table puzzle where the first move the
\* initial state enumerates starts a longer legal route to a final state.
C1_Witness ==
  /\ Returned
  /\ result.tag = "Some"
  /\ puzzle.kind = "table"
  /\ Len(result.vec) = 2
  /\ LET s0 == initial_configuration(puzzle)
         ms == get_possible_moves(puzzle, s0)
     IN /\ Len(ms) >= 2
        /\ ~is_final(puzzle, make_move(puzzle, s0, ms[1]))
        /\ CanReach(puzzle, make_move(puzzle, s0, ms[1]), 1)

(***************************************************************************)
(* C2  Valid solution trace: a returned path is non-empty, starts at the   *)
(* initial state, ends in a final state, and each step is a legal move.    *)
(***************************************************************************)
C2_ValidTrace ==
  result.tag = "Some" =>
     /\ Len(result.vec) >= 1
     /\ result.vec[1] = initial_configuration(puzzle)
     /\ is_final(puzzle, result.vec[Len(result.vec)])
     /\ LegalTrace(puzzle, result.vec)

\* The i32 puzzle solved: a returned path of several moves.
C2_Witness ==
  /\ Returned
  /\ result.tag = "Some"
  /\ puzzle.kind = "i32"
  /\ Len(result.vec) > 2

(***************************************************************************)
(* C3  No-solution outcome: solve() returns None exactly when no final     *)
(* state is reachable from the initial state, and only with the frontier   *)
(* empty.                                                                  *)
(***************************************************************************)
C3_NoneIffUnreachable ==
  Returned =>
     /\ (result = None) <=> (NearestGoalDepth(puzzle) = -1)
     /\ (result = None) => (todo = <<>> /\ paths = <<>>)

\* None returned after a search that enqueued paths beyond the initial one.
C3_Witness ==
  /\ Returned
  /\ result = None
  /\ Len(enqueued) >= 3

(***************************************************************************)
(* C4  Termination: solve() eventually returns, with a path or with None.  *)
(***************************************************************************)
C4_Terminates == <>(Returned /\ result.tag \in {"Some", "None"})

\* solve() has returned on a puzzle where some successor had been seen before
\* (the search ran into an already visited state and still ended).
C4_Witness ==
  /\ Returned
  /\ puzzle.kind = "table"
  /\ Len(calls) > Len(adds)
  /\ Len(adds) >= 2

(***************************************************************************)
(* C5  No-revisit (paths): no two distinct paths ever placed in the        *)
(* frontier, the initial one-element path included, end in equal states.   *)
(***************************************************************************)
C5_NoTwoPathsEndEqual ==
  \A i, j \in DOMAIN enqueued :
    enqueued[i] # enqueued[j] => last(enqueued[i]) # last(enqueued[j])

(***************************************************************************)
(* C6  No-revisit (insertions): every state is passed to seen.add at most  *)
(* once; seen holds exactly the states added so far, so each add(s) was    *)
(* made when mem(s) was false.                                             *)
(***************************************************************************)
C6_AddAtMostOnce ==
  /\ NoDuplicates(adds)
  /\ seen = Range(adds)

\* A successor was produced that had been seen, and was not added again.
C6_Witness ==
  /\ Len(adds) >= 2
  /\ Len(calls) > Len(adds)
  /\ pc = "moves"

(***************************************************************************)
(* C7  Tie-breaking by move order: the returned path is the one induced by *)
(* the lexicographically least sequence of move positions among the        *)
(* minimum-length legal move sequences to a final state; on the i32 puzzle *)
(* it is [1, 0, 2, 4, 6, 8, 10].                                           *)
(***************************************************************************)
C7_TieBreak ==
  (Returned /\ result.tag = "Some") =>
     /\ NearestGoalDepth(puzzle) >= 0
     /\ result.vec = LexMinTrace(puzzle, initial_configuration(puzzle),
                                 NearestGoalDepth(puzzle))
     /\ puzzle.kind = "i32" => result.vec = <<1, 0, 2, 4, 6, 8, 10>>

\* Returned on a puzzle with two minimum-length solutions that differ in the
\* first move: both moves 1 and 2 of the initial state lead to a final state
\* in the remaining number of moves.
C7_Witness ==
  /\ Returned
  /\ result.tag = "Some"
  /\ Len(result.vec) >= 2
  /\ LET s0 == initial_configuration(puzzle)
         ms == get_possible_moves(puzzle, s0)
     IN /\ Len(ms) >= 2
        /\ make_move(puzzle, s0, ms[1]) # make_move(puzzle, s0, ms[2])
        /\ CanReach(puzzle, make_move(puzzle, s0, ms[1]), Len(result.vec) - 2)
        /\ CanReach(puzzle, make_move(puzzle, s0, ms[2]), Len(result.vec) - 2)

(***************************************************************************)
(* C10  make_move precondition: every call make_move(s, m) made by solve() *)
(* has s the last state of the path being expanded and m one of the moves  *)
(* get_possible_moves(s) returns for that s.                               *)
(***************************************************************************)
C10_MovePrecondition ==
  [][calls' # calls =>
       LET c == calls'[Len(calls')]
       IN /\ pc = "moves"
          /\ c[1] = path[Len(path)]
          /\ c[2] \in Range(get_possible_moves(puzzle, c[1]))
          /\ c[2] = moves[1]]_vars

\* make_move has been called on a state other than the initial one.
C10_Witness ==
  /\ pc = "moves"
  /\ Len(path) >= 2
  /\ calls # <<>>
  /\ calls[Len(calls)][1] = path[Len(path)]
  /\ calls[Len(calls)][1] # initial_configuration(puzzle)

(***************************************************************************)
(* C11  Initial-state re-enqueue is bounded: the initial state ends at     *)
(* most two of the paths ever placed in the frontier, every other state    *)
(* at most one.                                                            *)
(***************************************************************************)
PathsEndingIn(s) ==
  { i \in DOMAIN enqueued : enqueued[i][Len(enqueued[i])] = s }

C11_ReenqueueBounded ==
  \A i \in DOMAIN enqueued :
    LET s == enqueued[i][Len(enqueued[i])]
    IN Cardinality(PathsEndingIn(s)) <=
         (IF s = initial_configuration(puzzle) THEN 2 ELSE 1)

\* The initial state was regenerated as a successor and enqueued a second
\* time, and was then regenerated again without being enqueued.
C11_Witness ==
  /\ Cardinality(PathsEndingIn(initial_configuration(puzzle))) = 2
  /\ Cardinality({ i \in DOMAIN calls :
        make_move(puzzle, calls[i][1], calls[i][2])
          = initial_configuration(puzzle) }) >= 2

(***************************************************************************)
(* C12  Mark-on-production: every successor produced so far is in the      *)
(* visited set, no two paths of the next-level frontier end in equal       *)
(* states, and every frontier path other than the one-element initial      *)
(* path ends in a visited state.                                           *)
(***************************************************************************)
C12_MarkOnProduction ==
  /\ \A i \in DOMAIN calls :
       make_move(puzzle, calls[i][1], calls[i][2]) \in seen
  /\ \A i, j \in DOMAIN todo :
       i # j => todo[i][Len(todo[i])] # todo[j][Len(todo[j])]
  /\ \A p \in Range(todo) \cup Range(paths) :
       p # <<initial_configuration(puzzle)>> => p[Len(p)] \in seen

\* Two paths of one level, ending in different states, produced the same
\* successor, which sits in the next-level frontier.
C12_Witness ==
  \E i, j \in DOMAIN calls :
    /\ i < j
    /\ calls[i][1] # calls[j][1]
    /\ make_move(puzzle, calls[i][1], calls[i][2])
         = make_move(puzzle, calls[j][1], calls[j][2])
    /\ \E k \in DOMAIN todo :
         todo[k][Len(todo[k])] = make_move(puzzle, calls[i][1], calls[i][2])
    /\ \E a, b \in DOMAIN tested :
         /\ Len(tested[a]) = Len(tested[b])
         /\ tested[a][Len(tested[a])] = calls[i][1]
         /\ tested[b][Len(tested[b])] = calls[j][1]

(***************************************************************************)
(* C13  Level synchrony: the frontier is taken whole; in the k-th          *)
(* iteration of the outer loop (level = k + 1) every path of the level has *)
(* k + 1 states and every path of the frontier being built has k + 2; a    *)
(* path is tested only after every enqueued path with fewer states.        *)
(***************************************************************************)
LevelSynchronous ==
  /\ \A p \in Range(todo) : Len(p) = level + 1
  /\ pc \in {"for", "moves"} => \A p \in Range(paths) : Len(p) = level
  /\ pc = "moves" => Len(path) = level
  /\ \A i \in DOMAIN tested :
       /\ i > 1 => Len(tested[i - 1]) <= Len(tested[i])
       /\ \A j \in DOMAIN enqueued :
            Len(enqueued[j]) < Len(tested[i]) =>
              \E h \in 1..(i - 1) : tested[h] = enqueued[j]

TakenWhole ==
  (pc = "while" /\ pc' = "for") =>
     (paths' = todo /\ todo' = <<>> /\ level' = level + 1)

C13_LevelSynchrony == []LevelSynchronous /\ [][TakenWhole]_vars

\* The third iteration of the outer loop begins with several paths.
C13_Witness ==
  /\ pc = "for"
  /\ level = 3
  /\ Len(paths) >= 2
  /\ Len(tested) >= 3
  /\ todo = <<>>

(***************************************************************************)
(* C14  Degenerate start: when the initial state is final, solve() returns *)
(* the one-element path at the first test; nothing is expanded, make_move  *)
(* is never called and the visited set stays empty.                        *)
(***************************************************************************)
C14_DegenerateStart ==
  is_final(puzzle, initial_configuration(puzzle)) =>
     /\ pc # "moves"
     /\ calls = <<>>
     /\ adds = <<>>
     /\ seen = {}
     /\ Len(tested) <= 1
     /\ tested # <<>> => Returned
     /\ Returned =>
          /\ result = Some(<<initial_configuration(puzzle)>>)
          /\ tested = << <<initial_configuration(puzzle)>> >>

\* Returned on a puzzle whose initial state is final and has moves.
C14_Witness ==
  /\ Returned
  /\ is_final(puzzle, initial_configuration(puzzle))
  /\ get_possible_moves(puzzle, initial_configuration(puzzle)) # <<>>

(***************************************************************************)
(* C15  Path branching is append-only and isolated: a path placed in the   *)
(* frontier is the path being expanded with the one successor appended;    *)
(* the expanded path, the rest of the level and the paths enqueued before  *)
(* are unchanged; no path is ever empty.                                   *)
(***************************************************************************)
PathsNonEmpty ==
  /\ \A p \in Range(todo) \cup Range(paths) \cup Range(enqueued) : Len(p) >= 1
  /\ pc = "moves" => Len(path) >= 1

BranchAppends ==
  enqueued' # enqueued =>
     /\ pc = "moves"
     /\ Len(enqueued') = Len(enqueued) + 1
     /\ SubSeq(enqueued', 1, Len(enqueued)) = enqueued
     /\ enqueued'[Len(enqueued')] =
          Append(path, make_move(puzzle, path[Len(path)], moves[1]))
     /\ todo' = Append(todo, enqueued'[Len(enqueued')])
     /\ path' = path
     /\ paths' = paths

C15_BranchIsolated == []PathsNonEmpty /\ [][BranchAppends]_vars

\* Two siblings branched off the path being expanded, which has two or more
\* states, are in the frontier.
C15_Witness ==
  /\ pc = "moves"
  /\ Len(path) >= 2
  /\ Len(todo) >= 2
  /\ SubSeq(todo[Len(todo)], 1, Len(path)) = path
  /\ SubSeq(todo[Len(todo) - 1], 1, Len(path)) = path
  /\ Len(todo[Len(todo)]) = Len(path) + 1

(***************************************************************************)
(* Reference notions on the Klotski board, stated on coordinates and       *)
(* independent of Direction::from, the move index and the MoveSet.         *)
(***************************************************************************)
Cells == (0..(WIDTH - 1)) \X (0..(HEIGHT - 1))

CellsOf(b, piece) == {c \in Cells : At(b, c[1], c[2]) = piece}

Shifted(c, direction) ==
  << c[1] + (IF direction = East THEN 1 ELSE IF direction = West THEN -1 ELSE 0),
     c[2] + (IF direction = South THEN 1 ELSE IF direction = North THEN -1 ELSE 0) >>

ShiftedCells(cells, direction) == {Shifted(c, direction) : c \in cells}

CanSlide(b, piece, direction) ==
  \A c \in CellsOf(b, piece) :
     /\ Shifted(c, direction) \in Cells
     /\ At(b, Shifted(c, direction)[1], Shifted(c, direction)[2]) \in {X0, piece}

AllMoves == {Move(piece, direction) : piece \in Range(PIECES), direction \in Range(DIRECTIONS)}

Increasing(q) == \A i, j \in DOMAIN q : i < j => to_u64(q[i]) < to_u64(q[j])

\* C16: on every board reached from INITIAL_BOARD, the MoveSet returned by
\* get_possible_moves allows the move (piece, direction) exactly when every
\* cell of the piece has a neighbour in that direction inside the grid that
\* is empty or holds the same piece, and the moves the iterator has returned
\* once it is exhausted are exactly those moves.
C16_MoveGeneration ==
  /\ kpc \in {"iter", "end"} =>
       \A m \in AllMoves :
          is_allowed(kset, m) <=> CanSlide(board, m.piece, m.direction)
  /\ kpc = "end" =>
       Range(kyield) = {m \in AllMoves : CanSlide(board, m.piece, m.direction)}

\* The iterator is exhausted on a board where a piece of more than one cell
\* can slide onto a cell it occupies itself, another move is barred by the
\* edge of the grid and another by a different piece.
C16_Witness ==
  /\ kpc = "end"
  /\ \E m \in Range(kyield) : \E c \in CellsOf(board, m.piece) :
        At(board, Shifted(c, m.direction)[1], Shifted(c, m.direction)[2]) = m.piece
  /\ \E m \in AllMoves \ Range(kyield) : \E c \in CellsOf(board, m.piece) :
        Shifted(c, m.direction) \notin Cells
  /\ \E m \in AllMoves \ Range(kyield) : \E c \in CellsOf(board, m.piece) :
        /\ Shifted(c, m.direction) \in Cells
        /\ At(board, Shifted(c, m.direction)[1], Shifted(c, m.direction)[2]) \notin {X0, m.piece}

\* C17: make_move, called on a board reached from INITIAL_BOARD with a move
\* the iterator over its get_possible_moves returned, does not panic; the
\* new board has exactly two empty cells, the moved piece occupies its old
\* cells shifted by one in the move's direction, and every other piece
\* occupies the cells it occupied before.
C17_BoardIntegrity ==
  kmoved # <<>> =>
     /\ ~kpanic
     /\ Cardinality(CellsOf(board, X0)) = Cardinality(CellsOf(INITIAL_BOARD, X0))
     /\ CellsOf(board, kmoved[1].piece)
          = ShiftedCells(CellsOf(kprev, kmoved[1].piece), kmoved[1].direction)
     /\ \A piece \in Range(PIECES) \ {kmoved[1].piece} :
           CellsOf(board, piece) = CellsOf(kprev, piece)

\* make_move has moved a piece of more than one cell along its own axis, so
\* that it now covers a cell it covered before, after at least one other
\* move.
C17_Witness ==
  /\ kmoved # <<>>
  /\ kdepth > 1
  /\ Cardinality(CellsOf(board, kmoved[1].piece)) > 1
  /\ CellsOf(board, kmoved[1].piece) \cap CellsOf(kprev, kmoved[1].piece) # {}
  /\ CellsOf(board, kmoved[1].piece) # CellsOf(kprev, kmoved[1].piece)

\* C18: to_u64 maps the N_PIECES * N_DIRECTIONS moves of pieces other than
\* X0 to distinct indices below N_PIECES * N_DIRECTIONS, from_u64 inverts
\* it, and the iterator over a MoveSet returns the allowed moves whose index
\* it has passed, each once, in increasing index order: all of the allowed
\* moves once it has returned None.
C18_EncodingRoundTrip ==
  /\ Cardinality(AllMoves) = N_PIECES * N_DIRECTIONS
  /\ \A m \in AllMoves :
        /\ to_u64(m) \in 0..(N_PIECES * N_DIRECTIONS - 1)
        /\ from_u64(to_u64(m)) = m
  /\ \A m1, m2 \in AllMoves : to_u64(m1) = to_u64(m2) => m1 = m2
  /\ kpc \in {"iter", "end"} =>
        /\ Increasing(kyield)
        /\ Range(kyield) = {m \in AllMoves : is_allowed(kset, m) /\ to_u64(m) < knext}
  /\ kpc = "end" =>
        /\ knext = N_PIECES * N_DIRECTIONS
        /\ Range(kyield) = {m \in AllMoves : is_allowed(kset, m)}

\* The iterator is exhausted after returning several moves with disallowed
\* indices before, between and after them.
C18_Witness ==
  /\ kpc = "end"
  /\ Len(kyield) > 2
  /\ to_u64(kyield[1]) > 0
  /\ \E i \in 1..(Len(kyield) - 1) : to_u64(kyield[i + 1]) > to_u64(kyield[i]) + 1
  /\ to_u64(kyield[Len(kyield)]) < N_PIECES * N_DIRECTIONS - 1

====
